---- MODULE Spec2Model ----
(***************************************************************************)
(* Model of the astra-link-validator automation scripts:                   *)
(*   scripts/astra_notion_init.py   (retry/backoff wrapper and bootstrap)  *)
(*   scripts/quiet_validator.py and .github/workflows/scripts/...          *)
(*   automation-utilities/upsert_secrets_and_dispatch.py                   *)
(* The remote services are the environment: every outcome a request can    *)
(* have is a nondeterministic choice.                                      *)
(***************************************************************************)
EXTENDS Integers, Sequences, FiniteSets, TLC

VARIABLES
    prog,       \* which entry point this process runs
    env,        \* the process environment: variable name -> value
    exitCode,   \* exit status of the process (-1 while it runs)
    out,        \* messages printed so far
    wpc,        \* position inside notion_request_with_backoff
    req,        \* the request the current call of the wrapper sends
    attempt,    \* local `attempt` of notion_request_with_backoff
    resp,       \* outcome of the last requests.request of the call
    nreq,       \* requests issued by the current call
    nsleep,     \* sleeps completed by the current call
    lastSleep,  \* duration of the last completed sleep of the call (-1: none)
    result,     \* how the call ended
    n503,       \* 503 responses received by the current call
    dbs,        \* remote workspace: its databases, in creation order
    pages,      \* remote workspace: its records (pages), in creation order
    nlost,      \* requests the service applied without a response arriving
    bpc,        \* position inside astra_notion_init.main
    run,        \* number of the bootstrap run in progress
    chron_id,   \* main's local chron_id (0: not assigned)
    link_id,    \* main's local link_id
    runlog_id,  \* main's local runlog_id
    page_id,    \* main's local page_id
    link_schema,\* main's local link_schema, its entry 'Chronicle'
    ncreate,    \* create-database requests issued by this run
    npatch,     \* PATCH requests issued by this run
    prev,       \* what the preceding run left: its exit code, ids, counts
    pagesAtStart, \* number of remote records when this run started
    calls,      \* the calls of the wrapper this run has made, in order
    dbsAtStart, \* number of remote databases when this run started
    variant,    \* which of the two quiet_validator.py files runs
    vpc,        \* position inside quiet_validator.main
    vresp,      \* outcome of the validator's requests.post
    vreqs,      \* requests the validator has issued
    upc,        \* position inside upsert_secrets_and_dispatch.main
    secrets_to_upsert, \* main's secrets_to_upsert: its names, in dict order
    key_id,     \* main's local key_id ("" before the key is fetched)
    public_key, \* main's local public_key
    uidx,       \* position of the running for loop in secrets_to_upsert
    all_verified, \* main's local all_verified
    ureqs       \* requests the upload tool has issued, in order

procVars == <<prog, env, exitCode, out>>
backoffVars == <<wpc, req, attempt, resp, nreq, nsleep, lastSleep, result, n503>>
remoteVars == <<dbs, pages, nlost>>
mainVars == <<bpc, run, chron_id, link_id, runlog_id, page_id, link_schema>>
histVars == <<ncreate, npatch, prev, pagesAtStart, calls, dbsAtStart>>
validatorVars == <<variant, vpc, vresp, vreqs>>
uploadVars == <<upc, secrets_to_upsert, key_id, public_key, uidx, all_verified, ureqs>>
vars == <<procVars, backoffVars, remoteVars, mainVars, histVars, validatorVars,
          uploadVars>>

----------------------------------------------------------------------------
(* Program constants of astra_notion_init.py *)
MAX_ATTEMPTS == 6
BACKOFF_BASE == 1
MAX_SLEEP == 10

TransientStatus == {429, 500, 502, 503, 504}

(* Bounds of the model *)
MaxHdrLen == 2      \* characters of a Retry-After header value
MaxInitDbs == 2     \* databases in the workspace before the first run
MaxRuns == 2        \* bootstrap runs in sequence
MaxLost == 1        \* requests applied whose response is lost

(* Statuses the remote service answers with: the five the code retries and  *)
(* a sample of those it does not (2xx, 4xx other than 429, another 5xx).    *)
Statuses == TransientStatus \cup {200, 400, 404, 501}

(* Exceptions requests.request raises: the two the wrapper catches and one  *)
(* RequestException it does not.                                            *)
CaughtExc == {"ConnectionError", "Timeout"}
Exceptions == CaughtExc \cup {"TooManyRedirects"}

(* A Retry-After header value is text: a sequence of characters.           *)
HdrChars == {"0", "2", "-", "W"}
HdrTexts == UNION {[1..n -> HdrChars] : n \in 0..MaxHdrLen}

(* resp.headers: the Retry-After header is absent or carries a text.       *)
NoHeader == [present |-> FALSE, text |-> <<>>]
Headers == {NoHeader} \cup {[present |-> TRUE, text |-> t] : t \in HdrTexts}

(* main reads of a failed response only whether the wrapper retried it, so *)
(* in a bootstrap run the service answers with one status of each kind:     *)
(* 200, 400 (rejected) and 502 (transient; the request may or may not have  *)
(* been applied), and requests.request raises one exception of each kind.   *)
ServerStatuses == IF prog = "backoff" THEN Statuses ELSE {200, 400, 502}
ServerHeaders == IF prog = "backoff" THEN Headers ELSE {NoHeader}
ServerExceptions ==
    IF prog = "backoff" THEN Exceptions ELSE {"Timeout", "TooManyRedirects"}

----------------------------------------------------------------------------
(* The remote workspace.  A database has a title, a list of rich-text       *)
(* segments each holding plain_text (a sequence of words), and a schema of  *)
(* which the model keeps the definition of the property named 'Chronicle'.  *)
(* A record (page) belongs to a database and may carry a 'Chronicle'        *)
(* relation to another record.  Ids are positions in creation order.        *)

CHRONICLE_TITLE == "Chronicle"
LINKCHECKS_TITLE == "LinkChecks"
RUNLOG_TITLE == "RunLog"
ToolTitles == {CHRONICLE_TITLE, LINKCHECKS_TITLE, RUNLOG_TITLE}

Absent == [type |-> "absent", db |-> 0]
RichText == [type |-> "rich_text", db |-> 0]
Relation(d) == [type |-> "relation", db |-> d]

(* "title": [{"type": "text", "text": {"content": title}}] *)
TitleOf(word) == <<<<word>>>>

RECURSIVE Join(_)
(* "".join([x.get("plain_text", "") for x in t]) *)
Join(t) == IF t = <<>> THEN <<>> ELSE Head(t) \o Join(Tail(t))

NoBody == [results |-> <<>>, id |-> 0, chronicle |-> Absent]
NoReq == [op |-> "none", title |-> "", db |-> 0, prop |-> Absent, rel |-> 0]
NoResp == [kind |-> "none", status |-> 0, hdr |-> NoHeader, exc |-> "",
           seq |-> 0, body |-> NoBody]
NoResult == [kind |-> "none", status |-> 0, exc |-> "", seq |-> 0,
             body |-> NoBody]

(* the service's search: the databases whose title contains the query *)
Matching(d, q) ==
    {i \in 1..Len(d) : \E k \in 1..Len(Join(d[i].title)) : Join(d[i].title)[k] = q}

RECURSIVE Perms(_)
Perms(S) ==
    IF S = {} THEN {<<>>}
    ELSE UNION {{<<x>> \o p : p \in Perms(S \ {x})} : x \in S}

(* A request changes the workspace only if the service accepts it: a GET,  *)
(* a PATCH or a new record needs its database, and a 'Chronicle' relation   *)
(* value needs a relation property whose target database holds the          *)
(* referenced record.                                                       *)
CanApply(r, d, pg) ==
    CASE r.op = "get_db" -> r.db \in 1..Len(d)
      [] r.op = "patch_db" -> r.db \in 1..Len(d)
      [] r.op = "create_page" ->
            /\ r.db \in 1..Len(d)
            /\ r.rel # 0 =>
                 /\ d[r.db].chronicle.type = "relation"
                 /\ r.rel \in 1..Len(pg)
                 /\ pg[r.rel].db = d[r.db].chronicle.db
      [] OTHER -> TRUE

ApplyDbs(r, d) ==
    CASE r.op = "create_db" ->
            Append(d, [title |-> TitleOf(r.title), chronicle |-> Absent])
      [] r.op = "patch_db" -> [d EXCEPT ![r.db].chronicle = r.prop]
      [] OTHER -> d

ApplyPages(r, pg) ==
    IF r.op = "create_page" THEN Append(pg, [db |-> r.db, rel |-> r.rel])
    ELSE pg

(* the JSON bodies a 200 response to r can carry, the workspace being d, pg *)
Bodies(r, d, pg) ==
    CASE r.op = "search" ->
            {[NoBody EXCEPT !.results =
                 [k \in 1..Len(p) |-> [id |-> p[k], title |-> d[p[k]].title]]]
               : p \in Perms(Matching(d, r.title))}
      [] r.op = "create_db" -> {[NoBody EXCEPT !.id = Len(d)]}
      [] r.op = "get_db" -> {[NoBody EXCEPT !.id = r.db,
                                           !.chronicle = d[r.db].chronicle]}
      [] r.op = "patch_db" -> {[NoBody EXCEPT !.id = r.db,
                                             !.chronicle = d[r.db].chronicle]}
      [] r.op = "create_page" -> {[NoBody EXCEPT !.id = Len(pg)]}
      [] OTHER -> {NoBody}

(* Whether the service applied the request, given what it answers: a 200    *)
(* means it did, a 4xx/429/501 that it did not, and after a 500/502/503/504 *)
(* or a connection/timeout error either is possible (the response of an     *)
(* applied request is lost at most MaxLost times).                          *)
MayLose(r, d, pg) ==
    IF CanApply(r, d, pg) /\ nlost < MaxLost THEN {TRUE} ELSE {}

AppliedChoices(kind, s, r, d, pg) ==
    IF kind = "resp"
    THEN IF s = 200 THEN (IF CanApply(r, d, pg) THEN {TRUE} ELSE {})
         ELSE IF s \in {500, 502, 503, 504}
              THEN {FALSE} \cup MayLose(r, d, pg)
              ELSE {FALSE}
    ELSE IF s \in CaughtExc
         THEN {FALSE} \cup MayLose(r, d, pg)
         ELSE {FALSE}

(* a request that changes the workspace when applied *)
Writes(r) == r.op \in {"create_db", "patch_db", "create_page"}

----------------------------------------------------------------------------
(* os.getenv: a variable is unset (None), set to the empty string, or set  *)
(* to a non-empty value.                                                   *)
None == "None"
EnvValues == {None, "", "value"}

getenv(name) == IF name \in DOMAIN env THEN env[name] ELSE None

(* Python truthiness of an Optional[str]: `not v` *)
Not(v) == v = None \/ v = ""

NoVResp == [kind |-> "none", status |-> 0, exc |-> ""]

ValidatorIdle ==
    /\ variant = "none"
    /\ vpc = "idle"
    /\ vresp = NoVResp
    /\ vreqs = <<>>

UploadIdle ==
    /\ upc = "idle"
    /\ secrets_to_upsert = <<>>
    /\ key_id = ""
    /\ public_key = ""
    /\ uidx = 0
    /\ all_verified = TRUE
    /\ ureqs = <<>>

----------------------------------------------------------------------------
(* float(retry_after), on the texts of HdrTexts: an optional '-' followed   *)
(* by one or more digits converts; any other text raises.                   *)
IsDigit(c) == c \in {"0", "1", "2", "3", "4", "5", "6", "7", "8", "9"}

DigitVal(c) ==
    CASE c = "0" -> 0 [] c = "1" -> 1 [] c = "2" -> 2 [] c = "3" -> 3
      [] c = "4" -> 4 [] c = "5" -> 5 [] c = "6" -> 6 [] c = "7" -> 7
      [] c = "8" -> 8 [] c = "9" -> 9

RECURSIVE DigitsVal(_)
DigitsVal(s) ==
    IF s = <<>> THEN 0
    ELSE 10 * DigitsVal(SubSeq(s, 1, Len(s) - 1)) + DigitVal(s[Len(s)])

AllDigits(s) == Len(s) > 0 /\ \A i \in 1..Len(s) : IsDigit(s[i])

float(t) ==
    IF AllDigits(t) THEN [ok |-> TRUE, val |-> DigitsVal(t)]
    ELSE IF Len(t) > 1 /\ t[1] = "-" /\ AllDigits(Tail(t))
         THEN [ok |-> TRUE, val |-> 0 - DigitsVal(Tail(t))]
         ELSE [ok |-> FALSE, val |-> 0]

RECURSIVE Pow2(_)
Pow2(n) == IF n = 0 THEN 1 ELSE 2 * Pow2(n - 1)

(* BACKOFF_BASE * (2 ** (attempt - 1)) *)
Backoff_Doubled(a) == BACKOFF_BASE * Pow2(a)
Backoff(a) == BACKOFF_BASE * Pow2(a - 1)

(* if sleep > 10: sleep = 10 *)
Cap(s) == IF s > MAX_SLEEP THEN MAX_SLEEP ELSE s

(* The sleep chosen for a transient response (lines 67-76). *)
SleepForResp_HeaderIgnored(r, a) == Cap(Backoff(a))
SleepForResp(r, a) ==
    IF r.hdr.present /\ r.hdr.text # <<>>
    THEN IF float(r.hdr.text).ok THEN Cap(float(r.hdr.text).val)
         ELSE Cap(Backoff(a))
    ELSE Cap(Backoff(a))

(* The sleep chosen after a connection or timeout error (lines 85-87). *)
SleepForExc(a) == Cap(Backoff(a))

(* if attempt >= MAX_ATTEMPTS *)
Exhausted_OffByOne(a) == a > MAX_ATTEMPTS
Exhausted(a) == a >= MAX_ATTEMPTS

(* resp.status_code in (429, 500, 502, 503, 504) *)
IsTransient_Every5xx(s) == s = 429 \/ s >= 500
IsTransient_Only5xx(s) == s \in {500, 502, 503, 504}
IsTransient(s) == s \in TransientStatus

----------------------------------------------------------------------------
(* notion_request_with_backoff *)

otherVars == <<procVars, mainVars, histVars, validatorVars, uploadVars>>

(* attempt += 1; requests.request(...) answers with a response *)
BackoffRequestResp ==
    /\ wpc = "loop"
    /\ \E s \in ServerStatuses, h \in ServerHeaders :
         \E applied \in AppliedChoices("resp", s, req, dbs, pages) :
            /\ dbs' = IF applied THEN ApplyDbs(req, dbs) ELSE dbs
            /\ pages' = IF applied THEN ApplyPages(req, pages) ELSE pages
            /\ nlost' = IF applied /\ s # 200 /\ Writes(req) THEN nlost + 1 ELSE nlost
            /\ \E b \in (IF s = 200 THEN Bodies(req, dbs', pages') ELSE {NoBody}) :
                  resp' = [kind |-> "resp", status |-> s, hdr |-> h, exc |-> "",
                           seq |-> nreq + 1, body |-> b]
            /\ n503' = IF s = 503 THEN n503 + 1 ELSE n503
    /\ attempt' = attempt + 1
    /\ nreq' = nreq + 1
    /\ wpc' = "got"
    /\ UNCHANGED <<otherVars, req, nsleep, lastSleep, result>>

(* attempt += 1; requests.request(...) raises *)
BackoffRequestExc ==
    /\ wpc = "loop"
    /\ \E e \in ServerExceptions :
         \E applied \in AppliedChoices("exc", e, req, dbs, pages) :
            /\ dbs' = IF applied THEN ApplyDbs(req, dbs) ELSE dbs
            /\ pages' = IF applied THEN ApplyPages(req, pages) ELSE pages
            /\ nlost' = IF applied /\ Writes(req) THEN nlost + 1 ELSE nlost
            /\ resp' = [kind |-> "exc", status |-> 0, hdr |-> NoHeader,
                        exc |-> e, seq |-> nreq + 1, body |-> NoBody]
    /\ attempt' = attempt + 1
    /\ nreq' = nreq + 1
    /\ wpc' = "got"
    /\ UNCHANGED <<otherVars, req, nsleep, lastSleep, result, n503>>

(* time.sleep(d): raises ValueError for a negative d, else blocks d seconds *)
Sleep(d) ==
    IF d < 0
    THEN /\ wpc' = "raised"
         /\ result' = [kind |-> "raise", status |-> 0, exc |-> "ValueError",
                       seq |-> resp.seq, body |-> NoBody]
         /\ UNCHANGED <<nsleep, lastSleep>>
    ELSE /\ wpc' = "loop"
         /\ nsleep' = nsleep + 1
         /\ lastSleep' = d
         /\ UNCHANGED result

(* lines 65-80: a transient status *)
BackoffTransient ==
    /\ wpc = "got"
    /\ resp.kind = "resp"
    /\ IsTransient(resp.status)
    /\ IF Exhausted(attempt)
       THEN /\ wpc' = "raised"
            /\ result' = [kind |-> "raise", status |-> resp.status,
                          exc |-> "HTTPError", seq |-> resp.seq,
                          body |-> NoBody]
            /\ UNCHANGED <<nsleep, lastSleep>>
       ELSE Sleep(SleepForResp(resp, attempt))
    /\ UNCHANGED <<otherVars, remoteVars, req, attempt, resp, nreq, n503>>

(* line 81: return resp *)
BackoffReturn ==
    /\ wpc = "got"
    /\ resp.kind = "resp"
    /\ ~IsTransient(resp.status)
    /\ wpc' = "returned"
    /\ result' = [kind |-> "return", status |-> resp.status, exc |-> "",
                  seq |-> resp.seq, body |-> resp.body]
    /\ UNCHANGED <<otherVars, remoteVars, req, attempt, resp, nreq, nsleep,
                   lastSleep, n503>>

(* lines 82-88: requests.ConnectionError or requests.Timeout *)
BackoffCaught ==
    /\ wpc = "got"
    /\ resp.kind = "exc"
    /\ resp.exc \in CaughtExc
    /\ IF Exhausted(attempt)
       THEN /\ wpc' = "raised"
            /\ result' = [kind |-> "raise", status |-> 0, exc |-> resp.exc,
                          seq |-> resp.seq, body |-> NoBody]
            /\ UNCHANGED <<nsleep, lastSleep>>
       ELSE Sleep(SleepForExc(attempt))
    /\ UNCHANGED <<otherVars, remoteVars, req, attempt, resp, nreq, n503>>

(* any other exception of requests.request leaves the function at once *)
BackoffUncaught ==
    /\ wpc = "got"
    /\ resp.kind = "exc"
    /\ resp.exc \notin CaughtExc
    /\ wpc' = "raised"
    /\ result' = [kind |-> "raise", status |-> 0, exc |-> resp.exc,
                  seq |-> resp.seq, body |-> NoBody]
    /\ UNCHANGED <<otherVars, remoteVars, req, attempt, resp, nreq, nsleep,
                   lastSleep, n503>>

Backoff_Next ==
    \/ BackoffRequestResp
    \/ BackoffRequestExc
    \/ BackoffTransient
    \/ BackoffReturn
    \/ BackoffCaught
    \/ BackoffUncaught

(* the process ends: the wrapper's frame is gone *)
Leave ==
    /\ wpc' = "idle"
    /\ req' = NoReq
    /\ attempt' = 0
    /\ resp' = NoResp
    /\ nreq' = 0
    /\ nsleep' = 0
    /\ lastSleep' = -1
    /\ result' = NoResult
    /\ n503' = 0

(* the wrapper is entered: attempt = 0 *)
Enter(r) ==
    /\ calls' = Append(calls, r)
    /\ wpc' = "loop"
    /\ req' = r
    /\ attempt' = 0
    /\ resp' = NoResp
    /\ nreq' = 0
    /\ nsleep' = 0
    /\ lastSleep' = -1
    /\ result' = NoResult
    /\ n503' = 0

BackoffIdle ==
    /\ wpc = "idle"
    /\ req = NoReq
    /\ attempt = 0
    /\ resp = NoResp
    /\ nreq = 0
    /\ nsleep = 0
    /\ lastSleep = -1
    /\ result = NoResult
    /\ n503 = 0

NoPrev == [exit |-> -1, chron |-> 0, link |-> 0, runlog |-> 0,
           titled |-> [t \in ToolTitles |-> 0]]

MainIdle ==
    /\ bpc = "idle"
    /\ run = 0
    /\ chron_id = 0
    /\ link_id = 0
    /\ runlog_id = 0
    /\ page_id = 0
    /\ link_schema = Absent
    /\ ncreate = 0
    /\ npatch = 0
    /\ prev = NoPrev
    /\ pagesAtStart = 0
    /\ calls = <<>>
    /\ dbsAtStart = 0

(* One call of notion_request_with_backoff, entered at `attempt = 0`, for   *)
(* a request that changes nothing on the service.                           *)
InitBackoff ==
    /\ prog = "backoff"
    /\ env = <<>>
    /\ exitCode = -1
    /\ out = <<>>
    /\ wpc = "loop"
    /\ req = NoReq
    /\ attempt = 0
    /\ resp = NoResp
    /\ nreq = 0
    /\ nsleep = 0
    /\ lastSleep = -1
    /\ result = NoResult
    /\ n503 = 0
    /\ dbs = <<>>
    /\ pages = <<>>
    /\ nlost = 0
    /\ MainIdle
    /\ ValidatorIdle
    /\ UploadIdle

SpecBackoff == InitBackoff /\ [][Backoff_Next]_vars

----------------------------------------------------------------------------
(* astra_notion_init.py: search_database_by_title, create_database,         *)
(* patch_database_add_property, create_page and main.                       *)

SearchReq(title) == [NoReq EXCEPT !.op = "search", !.title = title]
CreateDbReq(title) == [NoReq EXCEPT !.op = "create_db", !.title = title]
GetDbReq(id) == [NoReq EXCEPT !.op = "get_db", !.db = id]
PatchReq(id, prop) == [NoReq EXCEPT !.op = "patch_db", !.db = id, !.prop = prop]
CreatePageReq(id, rel) == [NoReq EXCEPT !.op = "create_page", !.db = id, !.rel = rel]

(* lines 100-106: the human title of a search result.  Every database the   *)
(* service lists has a "title" key, so the `elif "properties"` branch,      *)
(* which takes the id as title, is not taken; an empty title list leaves    *)
(* prop_title None (here the empty text).                                   *)
PropTitle(r) == IF r.title # <<>> THEN Join(r.title) ELSE <<>>

(* line 107: if prop_title and prop_title == title *)
IsHit_Contains(r, title) ==
    \E k \in 1..Len(PropTitle(r)) : PropTitle(r)[k] = title
IsHit(r, title) == PropTitle(r) # <<>> /\ PropTitle(r) = <<title>>

(* lines 97-109: the id of the first result that is a hit, 0 for None *)
FirstHit(results, title) ==
    LET hits == {k \in 1..Len(results) : IsHit(results[k], title)}
    IN IF hits = {} THEN 0
       ELSE results[CHOOSE k \in hits : \A j \in hits : k <= j].id

(* if "Chronicle" not in link_schema *)
RelationMissing_Always(schema) == TRUE
RelationMissing(schema) == schema.type = "absent"

(* the wrapper has returned or raised *)
Finished == wpc \in {"returned", "raised"}

(* the wrapper returned and resp.raise_for_status() passes *)
Ok_AnyResponse == wpc = "returned"
Ok == wpc = "returned" /\ result.status < 400

(* if not token or not parent_page *)
ConfigMissing_TokenOnly(token, parent_page) == Not(token)
ConfigMissing(token, parent_page) == Not(token) \/ Not(parent_page)

MainLocalsUnchanged == UNCHANGED <<chron_id, link_id, runlog_id, page_id, link_schema>>

(* lines 164-166: sys.exit(2) *)
MainConfigMissing ==
    /\ bpc = "start"
    /\ ConfigMissing(getenv("NOTION_TOKEN"), getenv("PARENT_PAGE_ID"))
    /\ exitCode' = 2
    /\ out' = Append(out, "NOTION_TOKEN and PARENT_PAGE_ID must be set in environment")
    /\ bpc' = "exited"
    /\ MainLocalsUnchanged
    /\ UNCHANGED <<prog, env, backoffVars, remoteVars, run, histVars, validatorVars, uploadVars>>

(* lines 168-185: search_database_by_title(CHRONICLE_TITLE) is called *)
MainBegin ==
    /\ bpc = "start"
    /\ ~ConfigMissing(getenv("NOTION_TOKEN"), getenv("PARENT_PAGE_ID"))
    /\ Enter(SearchReq(CHRONICLE_TITLE))
    /\ bpc' = "chron_search"
    /\ MainLocalsUnchanged
    /\ UNCHANGED <<procVars, remoteVars, run, ncreate, npatch, prev, pagesAtStart,
                   dbsAtStart, validatorVars, uploadVars>>

(* lines 185-196: Chronicle is found, or create_database is called *)
ChronSearched ==
    /\ bpc = "chron_search"
    /\ Ok
    /\ LET id == FirstHit(result.body.results, CHRONICLE_TITLE)
       IN IF id # 0
          THEN /\ chron_id' = id
               /\ Enter(SearchReq(LINKCHECKS_TITLE))
               /\ bpc' = "link_search"
               /\ UNCHANGED ncreate
          ELSE /\ Enter(CreateDbReq(CHRONICLE_TITLE))
               /\ bpc' = "chron_create"
               /\ ncreate' = ncreate + 1
               /\ UNCHANGED chron_id
    /\ UNCHANGED <<procVars, remoteVars, run, link_id, runlog_id, page_id,
                   link_schema, npatch, prev, pagesAtStart, dbsAtStart, validatorVars, uploadVars>>

(* lines 196-206: Chronicle was created *)
ChronCreated ==
    /\ bpc = "chron_create"
    /\ Ok
    /\ chron_id' = result.body.id
    /\ Enter(SearchReq(LINKCHECKS_TITLE))
    /\ bpc' = "link_search"
    /\ UNCHANGED <<procVars, remoteVars, run, link_id, runlog_id, page_id,
                   link_schema, ncreate, npatch, prev, pagesAtStart,
                   dbsAtStart, validatorVars, uploadVars>>

(* lines 206-222: LinkChecks is found, or create_database is called *)
LinkSearched ==
    /\ bpc = "link_search"
    /\ Ok
    /\ LET id == FirstHit(result.body.results, LINKCHECKS_TITLE)
       IN IF id # 0
          THEN /\ link_id' = id
               /\ Enter(GetDbReq(id))
               /\ bpc' = "link_get"
               /\ UNCHANGED ncreate
          ELSE /\ Enter(CreateDbReq(LINKCHECKS_TITLE))
               /\ bpc' = "link_create"
               /\ ncreate' = ncreate + 1
               /\ UNCHANGED link_id
    /\ UNCHANGED <<procVars, remoteVars, run, chron_id, runlog_id, page_id,
                   link_schema, npatch, prev, pagesAtStart, dbsAtStart, validatorVars, uploadVars>>

(* lines 217-222: LinkChecks was created; its schema is fetched *)
LinkCreated ==
    /\ bpc = "link_create"
    /\ Ok
    /\ link_id' = result.body.id
    /\ Enter(GetDbReq(result.body.id))
    /\ bpc' = "link_get"
    /\ UNCHANGED <<procVars, remoteVars, run, chron_id, runlog_id, page_id,
                   link_schema, ncreate, npatch, prev, pagesAtStart,
                   dbsAtStart, validatorVars, uploadVars>>

(* lines 223-230 and 238: the relation is patched in if its name is absent *)
LinkFetched ==
    /\ bpc = "link_get"
    /\ Ok
    /\ link_schema' = result.body.chronicle
    /\ IF RelationMissing(result.body.chronicle)
       THEN /\ Enter(PatchReq(link_id, Relation(chron_id)))
            /\ bpc' = "link_patch"
            /\ npatch' = npatch + 1
       ELSE /\ Enter(SearchReq(RUNLOG_TITLE))
            /\ bpc' = "runlog_search"
            /\ UNCHANGED npatch
    /\ UNCHANGED <<procVars, remoteVars, run, chron_id, link_id, runlog_id,
                   page_id, ncreate, prev, pagesAtStart, dbsAtStart, validatorVars, uploadVars>>

(* lines 227-238: the relation was added *)
LinkPatched ==
    /\ bpc = "link_patch"
    /\ Ok
    /\ Enter(SearchReq(RUNLOG_TITLE))
    /\ bpc' = "runlog_search"
    /\ MainLocalsUnchanged
    /\ UNCHANGED <<procVars, remoteVars, run, ncreate, npatch, prev, pagesAtStart,
                   dbsAtStart, validatorVars, uploadVars>>

(* lines 238-248 and 265: RunLog is found, or create_database is called *)
RunlogSearched ==
    /\ bpc = "runlog_search"
    /\ Ok
    /\ LET id == FirstHit(result.body.results, RUNLOG_TITLE)
       IN IF id # 0
          THEN /\ runlog_id' = id
               /\ Enter(CreatePageReq(chron_id, 0))
               /\ bpc' = "page_chron"
               /\ UNCHANGED ncreate
          ELSE /\ Enter(CreateDbReq(RUNLOG_TITLE))
               /\ bpc' = "runlog_create"
               /\ ncreate' = ncreate + 1
               /\ UNCHANGED runlog_id
    /\ UNCHANGED <<procVars, remoteVars, run, chron_id, link_id, page_id,
                   link_schema, npatch, prev, pagesAtStart, dbsAtStart, validatorVars, uploadVars>>

(* lines 248-265: RunLog was created; the smoke test inserts into Chronicle *)
RunlogCreated ==
    /\ bpc = "runlog_create"
    /\ Ok
    /\ runlog_id' = result.body.id
    /\ Enter(CreatePageReq(chron_id, 0))
    /\ bpc' = "page_chron"
    /\ UNCHANGED <<procVars, remoteVars, run, chron_id, link_id, page_id,
                   link_schema, ncreate, npatch, prev, pagesAtStart,
                   dbsAtStart, validatorVars, uploadVars>>

(* lines 265-276: the Chronicle record exists; the linked record is sent *)
PageChronInserted ==
    /\ bpc = "page_chron"
    /\ Ok
    /\ page_id' = result.body.id
    /\ Enter(CreatePageReq(link_id, result.body.id))
    /\ bpc' = "page_link"
    /\ UNCHANGED <<procVars, remoteVars, run, chron_id, link_id, runlog_id,
                   link_schema, ncreate, npatch, prev, pagesAtStart,
                   dbsAtStart, validatorVars, uploadVars>>

(* lines 276-284: setup complete, main returns *)
PageLinkInserted ==
    /\ bpc = "page_link"
    /\ Ok
    /\ exitCode' = 0
    /\ out' = Append(out, "v1-lite setup complete!")
    /\ bpc' = "exited"
    /\ Leave
    /\ MainLocalsUnchanged
    /\ UNCHANGED <<prog, env, remoteVars, run, histVars, validatorVars, uploadVars>>

(* the message of the except clause of the step a call belongs to *)
FailureMessage(pc) ==
    CASE pc \in {"chron_search", "chron_create"} -> "Failed to ensure Chronicle DB"
      [] pc \in {"link_search", "link_create", "link_get", "link_patch"} ->
            "Failed to ensure LinkChecks DB and relation"
      [] pc \in {"runlog_search", "runlog_create"} -> "Failed to ensure RunLog DB"
      [] pc \in {"page_chron", "page_link"} -> "Smoke test failed"

Calling ==
    {"chron_search", "chron_create", "link_search", "link_create", "link_get",
     "link_patch", "runlog_search", "runlog_create", "page_chron", "page_link"}

(* the wrapper raised, or raise_for_status raised: except Exception -> sys.exit(1) *)
StepFailed ==
    /\ bpc \in Calling
    /\ Finished
    /\ ~Ok
    /\ exitCode' = 1
    /\ out' = Append(out, FailureMessage(bpc))
    /\ bpc' = "exited"
    /\ Leave
    /\ MainLocalsUnchanged
    /\ UNCHANGED <<prog, env, remoteVars, run, histVars, validatorVars, uploadVars>>

(* number of databases whose title is exactly t *)
Titled(d, t) == Cardinality({i \in 1..Len(d) : Join(d[i].title) = <<t>>})

(* the tool is invoked again: a new process, the same environment and       *)
(* workspace                                                                *)
NewRun ==
    /\ bpc = "exited"
    /\ run < MaxRuns
    /\ run' = run + 1
    /\ prev' = [exit |-> exitCode, chron |-> chron_id, link |-> link_id,
                runlog |-> runlog_id,
                titled |-> [t \in ToolTitles |-> Titled(dbs, t)]]
    /\ exitCode' = -1
    /\ out' = <<>>
    /\ bpc' = "start"
    /\ chron_id' = 0
    /\ link_id' = 0
    /\ runlog_id' = 0
    /\ page_id' = 0
    /\ link_schema' = Absent
    /\ ncreate' = 0
    /\ npatch' = 0
    /\ pagesAtStart' = Len(pages)
    /\ calls' = <<>>
    /\ dbsAtStart' = Len(dbs)
    /\ UNCHANGED <<prog, env, backoffVars, remoteVars, validatorVars, uploadVars>>

Main_Next ==
    \/ MainConfigMissing
    \/ MainBegin
    \/ ChronSearched
    \/ ChronCreated
    \/ LinkSearched
    \/ LinkCreated
    \/ LinkFetched
    \/ LinkPatched
    \/ RunlogSearched
    \/ RunlogCreated
    \/ PageChronInserted
    \/ PageLinkInserted
    \/ StepFailed
    \/ NewRun

(* The workspaces a first run can find: up to MaxInitDbs databases, titled  *)
(* like the tool's or 'Chronicle Archive', no two of them with the same     *)
(* title, and no records yet.  A LinkChecks database has any 'Chronicle'    *)
(* property: none, a text property, or a relation to any database; the      *)
(* tool reads the schema of no other database.  Ids are opaque to the tool  *)
(* and the service lists search results in any order, so the databases are  *)
(* taken in one creation order (that of TitleRank).                         *)
InitTitles == {TitleOf(t) : t \in ToolTitles} \cup {<<<<"Chronicle">>, <<"Archive">>>>}
InitProps(n) == {Absent, RichText} \cup {Relation(j) : j \in 1..n}
TitleRank(t) ==
    CASE t = TitleOf(CHRONICLE_TITLE) -> 1
      [] t = TitleOf(LINKCHECKS_TITLE) -> 2
      [] t = TitleOf(RUNLOG_TITLE) -> 3
      [] OTHER -> 4
InitWorkspaces ==
    UNION {{d \in [1..n -> [title : InitTitles, chronicle : InitProps(n)]] :
               /\ \A i, j \in 1..n : i < j => TitleRank(d[i].title) < TitleRank(d[j].title)
               /\ \A i \in 1..n :
                     d[i].title # TitleOf(LINKCHECKS_TITLE) => d[i].chronicle = Absent}
             : n \in 0..MaxInitDbs}

InitMain ==
    /\ prog = "astra_notion_init"
    /\ env \in [{"NOTION_TOKEN", "PARENT_PAGE_ID"} -> EnvValues]
    /\ exitCode = -1
    /\ out = <<>>
    /\ BackoffIdle
    /\ dbs \in InitWorkspaces
    /\ pages = <<>>
    /\ nlost = 0
    /\ bpc = "start"
    /\ run = 1
    /\ chron_id = 0
    /\ link_id = 0
    /\ runlog_id = 0
    /\ page_id = 0
    /\ link_schema = Absent
    /\ ncreate = 0
    /\ npatch = 0
    /\ prev = NoPrev
    /\ pagesAtStart = 0
    /\ calls = <<>>
    /\ dbsAtStart = Len(dbs)
    /\ ValidatorIdle
    /\ UploadIdle

SpecMain == InitMain /\ [][Main_Next \/ Backoff_Next]_vars

----------------------------------------------------------------------------
(* Claims about notion_request_with_backoff, checked under SpecBackoff.    *)

Terminated == wpc \in {"returned", "raised"}

(* A bound on the steps the call can still take: two per request left,     *)
(* one more when a response is in hand.                                    *)
StepsLeft ==
    IF Terminated THEN 0
    ELSE 2 * (MAX_ATTEMPTS + 1 - nreq) + (IF wpc = "got" THEN 1 ELSE 0)

(* C1: a call issues at most MAX_ATTEMPTS = 6 requests and completes at    *)
(* most 5 sleeps whatever the outcomes are, and it cannot run forever:     *)
(* every step of the call strictly decreases StepsLeft, which is never     *)
(* negative, and the only states without a next step are those where the   *)
(* call has returned or raised.                                            *)
C1_BoundedAttempts ==
    /\ [](/\ nreq <= 6
          /\ nsleep <= 5
          /\ StepsLeft >= 0
          /\ (wpc = "loop" => nreq < 6)
          /\ (Terminated <=> result.kind \in {"return", "raise"}))
    /\ [][StepsLeft' < StepsLeft]_vars

C1_Witness == wpc = "raised" /\ nreq = 6 /\ nsleep = 5

(* C2: when the service answers k 503 responses (0 <= k <= 5) and then a   *)
(* 200, the call returns that 200 after k + 1 requests without raising:    *)
(* the call never ends while all its responses so far were 503 and fewer   *)
(* than 6 were received, and a 200 that follows only 503s is returned.     *)
C2_Returns200After503s ==
    /\ (Terminated /\ n503 = nreq /\ resp.kind = "resp") => nreq = 6
    /\ (Terminated /\ n503 = nreq - 1 /\ resp.kind = "resp" /\ resp.status = 200)
          => (wpc = "returned" /\ result.status = 200 /\ result.seq = n503 + 1)

(* C3: a first response whose status is not 429/500/502/503/504 is         *)
(* returned at once: one request, no sleep, no exception.                  *)
C3_NonTransientReturnedAtOnce ==
    [][(wpc = "got" /\ resp.kind = "resp" /\ resp.seq = 1
          /\ resp.status \notin {429, 500, 502, 503, 504})
        => (/\ wpc' = "returned"
            /\ result'.kind = "return"
            /\ result'.status = resp.status
            /\ result'.seq = 1
            /\ nreq' = 1
            /\ nsleep' = 0)]_vars

C3_Witness ==
    wpc = "returned" /\ nreq = 1 /\ nsleep = 0 /\ result.status = 404

(* C4: after six attempts that all failed transiently the call raises the  *)
(* failure of the sixth attempt (HTTPError of the sixth response, or the   *)
(* sixth ConnectionError/Timeout), and a returned response never has a     *)
(* status in 429/500/502/503/504.                                          *)
C4_LastFailureSurfaced ==
    /\ (Terminated /\ nreq = 6 /\ resp.kind = "resp"
          /\ resp.status \in {429, 500, 502, 503, 504})
         => (wpc = "raised" /\ result.exc = "HTTPError"
               /\ result.status = resp.status /\ result.seq = 6)
    /\ (Terminated /\ nreq = 6 /\ resp.kind = "exc"
          /\ resp.exc \in {"ConnectionError", "Timeout"})
         => (wpc = "raised" /\ result.exc = resp.exc /\ result.seq = 6)
    /\ (wpc = "returned" => result.status \notin {429, 500, 502, 503, 504})
    /\ (wpc = "got" /\ nreq = 6 /\ resp.kind = "resp" => nsleep = 5)

C4_Witness ==
    wpc = "raised" /\ nreq = 6 /\ result.exc = "HTTPError"
      /\ result.status = 504 /\ result.seq = 6

(* The decimal numeral of an integer of -99..99, as header text. *)
DigitChar(n) ==
    CASE n = 0 -> "0" [] n = 1 -> "1" [] n = 2 -> "2" [] n = 3 -> "3"
      [] n = 4 -> "4" [] n = 5 -> "5" [] n = 6 -> "6" [] n = 7 -> "7"
      [] n = 8 -> "8" [] n = 9 -> "9"

Numeral(d) ==
    LET a == IF d < 0 THEN 0 - d ELSE d
        digits == IF a < 10 THEN <<DigitChar(a)>>
                  ELSE <<DigitChar(a \div 10), DigitChar(a % 10)>>
    IN IF d < 0 THEN <<"-">> \o digits ELSE digits

(* A transient response with Retry-After: d is in hand and attempts remain *)
RetryAfterInHand(d) ==
    /\ wpc = "got"
    /\ resp.kind = "resp"
    /\ resp.status \in {429, 500, 502, 503, 504}
    /\ resp.hdr.present
    /\ resp.hdr.text = Numeral(d)
    /\ attempt < 6

(* C5 as stated: the call then sleeps d seconds, for every d. *)
C5_SleepsRetryAfter ==
    [][\A d \in -99..99 :
         RetryAfterInHand(d)
           => (wpc' = "loop" /\ lastSleep' = d /\ nsleep' = nsleep + 1)]_vars

(* C5 as amended: the call sleeps min(d, 10) seconds for d >= 0 and then   *)
(* goes on to the next attempt; for d < 0 time.sleep raises ValueError and *)
(* the call ends without a sleep.                                          *)
C5_SleepsCappedRetryAfter ==
    [][\A d \in -99..99 :
         RetryAfterInHand(d)
           => IF d >= 0
              THEN /\ wpc' = "loop"
                   /\ lastSleep' = (IF d > 10 THEN 10 ELSE d)
                   /\ nsleep' = nsleep + 1
                   /\ nreq' = nreq
              ELSE /\ wpc' = "raised"
                   /\ result'.exc = "ValueError"
                   /\ nsleep' = nsleep]_vars

(* 429 with Retry-After: 2, then 200: one sleep of 2 seconds, two requests *)
C5_Witness ==
    /\ wpc = "returned"
    /\ result.status = 200
    /\ nreq = 2
    /\ nsleep = 1
    /\ lastSleep = 2

----------------------------------------------------------------------------
(* quiet_validator.py: scripts/quiet_validator.py ("scripts") and          *)
(* .github/workflows/scripts/quiet_validator.py ("workflows").             *)

Variants == {"scripts", "workflows"}
ValidatorEnvVars ==
    {"NOTION_TOKEN", "LINKCHECK_DB_ID", "RADAR_DB_ID", "PROJECT_TRACKER_DB_ID"}

(* timeout= of the requests.post call of each file *)
PostTimeout(v) == IF v = "scripts" THEN 15 ELSE 10

(* if not token or not link_db *)
NotConfigured_And(token, link_db) == Not(token) /\ Not(link_db)
NotConfigured(token, link_db) == Not(token) \/ Not(link_db)

(* the value main() returns after a response or an exception *)
ReturnCode_FailOnError(r) ==
    IF r.kind = "resp" /\ r.status = 200 THEN 0 ELSE 1
ReturnCode(r) == 0

(* the query the validator posts *)
QueryRequest(v, link_db) ==
    [method |-> "POST", path |-> <<"databases", link_db, "query">>,
     page_size |-> 1, timeout |-> PostTimeout(v)]

(* banner prints, then the early return when a secret is missing *)
ValidatorNoSecrets ==
    /\ vpc = "start"
    /\ NotConfigured(getenv("NOTION_TOKEN"), getenv("LINKCHECK_DB_ID"))
    /\ out' = out \o <<"Quiet Link Validator", "No secrets yet">>
    /\ exitCode' = 0
    /\ vpc' = "exited"
    /\ UNCHANGED <<prog, env, backoffVars, remoteVars, uploadVars, mainVars, histVars,
                   variant, vresp, vreqs>>

(* banner prints, then requests.post(...): a response or an exception *)
ValidatorPost ==
    /\ vpc = "start"
    /\ ~NotConfigured(getenv("NOTION_TOKEN"), getenv("LINKCHECK_DB_ID"))
    /\ out' = out \o <<"Quiet Link Validator">>
    /\ vreqs' = Append(vreqs, QueryRequest(variant, getenv("LINKCHECK_DB_ID")))
    /\ \/ \E st \in Statuses :
             vresp' = [kind |-> "resp", status |-> st, exc |-> ""]
       \/ \E e \in Exceptions :
             vresp' = [kind |-> "exc", status |-> 0, exc |-> e]
    /\ vpc' = "posted"
    /\ UNCHANGED <<prog, env, exitCode, backoffVars, remoteVars, uploadVars, mainVars,
                   histVars, variant>>

(* the response is reported and main returns *)
ValidatorReport ==
    /\ vpc = "posted"
    /\ vresp.kind = "resp"
    /\ out' = out \o <<"Notion query status",
                       IF vresp.status = 200 THEN "OK" ELSE "Warning">>
    /\ exitCode' = ReturnCode(vresp)
    /\ vpc' = "exited"
    /\ UNCHANGED <<prog, env, backoffVars, remoteVars, uploadVars, mainVars, histVars,
                   variant, vresp, vreqs>>

(* except Exception: the exception is reported and main returns *)
ValidatorException ==
    /\ vpc = "posted"
    /\ vresp.kind = "exc"
    /\ out' = out \o <<"Exception">>
    /\ exitCode' = ReturnCode(vresp)
    /\ vpc' = "exited"
    /\ UNCHANGED <<prog, env, backoffVars, remoteVars, uploadVars, mainVars, histVars,
                   variant, vresp, vreqs>>

Validator_Next ==
    \/ ValidatorNoSecrets
    \/ ValidatorPost
    \/ ValidatorReport
    \/ ValidatorException

(* A run of either validator file under any environment. *)
InitValidator ==
    /\ prog = "quiet_validator"
    /\ env \in [ValidatorEnvVars -> EnvValues]
    /\ exitCode = -1
    /\ out = <<>>
    /\ variant \in Variants
    /\ vpc = "start"
    /\ vresp = NoVResp
    /\ vreqs = <<>>
    /\ BackoffIdle
    /\ dbs = <<>>
    /\ pages = <<>>
    /\ nlost = 0
    /\ MainIdle
    /\ UploadIdle

SpecValidator == InitValidator /\ [][Validator_Next]_vars

----------------------------------------------------------------------------
(* Claims about the validator, checked under SpecValidator.                *)

Missing(name) == env[name] \in {"None", ""}

(* C9: when NOTION_TOKEN or LINKCHECK_DB_ID is unset or empty the          *)
(* validator issues no request, and it ends, in its one step, with the     *)
(* 'No secrets yet' message printed and exit code 0.                       *)
C9_MissingSecretsExitZero ==
    (Missing("NOTION_TOKEN") \/ Missing("LINKCHECK_DB_ID"))
      => /\ vreqs = <<>>
         /\ vpc \in {"start", "exited"}
         /\ vpc = "start" => ENABLED ValidatorNoSecrets
         /\ vpc = "exited"
              => (exitCode = 0 /\ \E i \in 1..Len(out) : out[i] = "No secrets yet")

C9_Witness ==
    /\ env["NOTION_TOKEN"] = "value"
    /\ env["LINKCHECK_DB_ID"] = ""
    /\ vpc = "exited"
    /\ exitCode = 0

(* C10: when both credentials are present the validator issues exactly one *)
(* request, a POST of a database query with page_size 1, and exits 0 after *)
(* a 200, after any other status and after an exception; it never issues   *)
(* a second request and every state before the exit has a next step.       *)
C10_OneQueryExitZero ==
    (~Missing("NOTION_TOKEN") /\ ~Missing("LINKCHECK_DB_ID"))
      => /\ Len(vreqs) <= 1
         /\ vpc = "start" => (vreqs = <<>> /\ ENABLED ValidatorPost)
         /\ vpc = "posted" => ENABLED (ValidatorReport \/ ValidatorException)
         /\ vpc \in {"posted", "exited"}
              => /\ Len(vreqs) = 1
                 /\ vreqs[1].method = "POST"
                 /\ vreqs[1].path = <<"databases", env["LINKCHECK_DB_ID"], "query">>
                 /\ vreqs[1].page_size = 1
         /\ vpc = "exited" => exitCode = 0

C10_Witness ==
    /\ vpc = "exited"
    /\ exitCode = 0
    /\ vresp.kind = "exc"
    /\ Len(vreqs) = 1

C10_WitnessWarning ==
    /\ vpc = "exited"
    /\ exitCode = 0
    /\ vresp.kind = "resp"
    /\ vresp.status = 503

----------------------------------------------------------------------------
(* Claims about the bootstrap tool, checked under SpecMain.                *)

(* C6: in a run that follows a completed run, no create-database request   *)
(* is issued, Chronicle, LinkChecks and RunLog resolve to the ids of the   *)
(* first run, and the number of databases of each title stays what it was  *)
(* after the first run.                                                    *)
C6_SecondRunSameIds ==
    prev.exit = 0
      => /\ ncreate = 0
         /\ chron_id \in {0, prev.chron}
         /\ link_id \in {0, prev.link}
         /\ runlog_id \in {0, prev.runlog}
         /\ \A t \in {"Chronicle", "LinkChecks", "RunLog"} :
               Titled(dbs, t) = prev.titled[t]

(* C6, the part that does not speak of ids: a run that follows a completed *)
(* run issues no create-database request and creates no database.          *)
C6_NoCreateOnRerun ==
    prev.exit = 0
      => /\ ncreate = 0
         /\ \A t \in {"Chronicle", "LinkChecks", "RunLog"} :
               Titled(dbs, t) = prev.titled[t]

(* C7: a PATCH adding 'Chronicle' is sent only in a run whose fetched       *)
(* LinkChecks schema has no property of that name, and to that database;    *)
(* when the fetched schema has one, whatever its definition, the run sends  *)
(* no PATCH; and no step ever changes a 'Chronicle' definition a database   *)
(* already has, so over the reruns the relation is added at most once.      *)
C7_RelationAddedOnlyIfAbsent ==
    /\ [](/\ req.op = "patch_db"
               => (bpc = "link_patch" /\ req.db = link_id
                     /\ link_schema.type = "absent" /\ npatch = 1)
          /\ link_schema.type # "absent" => npatch = 0
          /\ npatch <= 1)
    /\ [][\A i \in 1..Len(dbs) :
            dbs[i].chronicle.type # "absent"
              => dbs'[i].chronicle = dbs[i].chronicle]_vars

(* a rerun after a completed run finds the relation and sends no PATCH *)
C7_Witness ==
    /\ run = 2
    /\ prev.exit = 0
    /\ bpc = "exited"
    /\ exitCode = 0
    /\ npatch = 0
    /\ link_schema = [type |-> "relation", db |-> chron_id]

(* records of database d inserted since this run started *)
NewRecords(d) == {k \in (pagesAtStart + 1)..Len(pages) : pages[k].db = d}

(* C8: a run that completes successfully has inserted exactly one record   *)
(* into Chronicle and exactly one into LinkChecks, the latter related to    *)
(* the former; so after two successful runs each of the two databases of    *)
(* an initially empty workspace holds two records.                          *)
C8_OneRecordPairPerRun ==
    (bpc = "exited" /\ exitCode = 0)
      => /\ NewRecords(chron_id) = {page_id}
         /\ Cardinality(NewRecords(link_id)) = 1
         /\ \A k \in NewRecords(link_id) : pages[k].rel = page_id
         /\ prev.exit = 0
              => /\ Cardinality({k \in 1..Len(pages) : pages[k].db = chron_id}) = 2
                 /\ Cardinality({k \in 1..Len(pages) : pages[k].db = link_id}) = 2

(* C8, what holds of every successful run: it inserted at least one record *)
(* into each database, the record main holds as page_id is a new Chronicle  *)
(* record, and every new LinkChecks record is related to it.                *)
C8_AtLeastOneRecordPair ==
    (bpc = "exited" /\ exitCode = 0)
      => /\ page_id \in NewRecords(chron_id)
         /\ NewRecords(link_id) # {}
         /\ \A k \in NewRecords(link_id) : pages[k].rel = page_id

----------------------------------------------------------------------------
(* automation-utilities/upsert_secrets_and_dispatch.py                      *)

(* the keys of secrets_to_upsert, in the order the dict literal lists them *)
SECRET_NAMES ==
    <<"NOTION_TOKEN", "LINKCHECK_DB_ID", "RADAR_DB_ID", "PROJECT_TRACKER_DB_ID">>

UploadEnvVars ==
    {"GITHUB_TOKEN", "NO_DISPATCH"} \cup {SECRET_NAMES[i] : i \in 1..Len(SECRET_NAMES)}

(* {k: v for k, v in secrets_to_upsert.items() if v is not None} keeps a    *)
(* variable that is set, the empty string included                          *)
IsSet_Truthy(v) == v # None /\ v # ""
IsSet(v) == v # None

Keep(name) == IsSet(getenv(name))
SecretsToUpsert == SelectSeq(SECRET_NAMES, Keep)

(* if not secrets_to_upsert *)
NoSecretsProvided_Unchecked(secrets) == FALSE
NoSecretsProvided(secrets) == secrets = <<>>

(* if not os.getenv("NO_DISPATCH") *)
DispatchEnabled_Always(no_dispatch) == TRUE
DispatchEnabled(no_dispatch) == Not(no_dispatch)

(* response.raise_for_status() raises HTTPError for a 4xx or 5xx status *)
RaisesForStatus(st) == st >= 400

(* return response.status_code == 200 *)
Exists(st) == st = 200

(* What the code-hosting service answers: a success status with or without  *)
(* content, or an error status; or requests raises a RequestException.      *)
UploadStatuses == {200, 204, 404}
UploadExceptions == {"Timeout"}

(* The JSON of the public-key response: a key id and a Base64 key, a key    *)
(* that does not decode to a public key, or a body without the two fields.  *)
BadKey == "not-a-key"
Malformed == [key_id |-> "", key |-> ""]
KeyBodies ==
    {[key_id |-> "kid-1", key |-> "pk-1"], [key_id |-> "kid-2", key |-> "pk-2"],
     [key_id |-> "kid-1", key |-> BadKey], Malformed}

(* encrypt_secret: a sealed box of the value for the public key; PublicKey  *)
(* raises on a text that is not the Base64 of a key                         *)
encrypt_secret(pk, secret_value) ==
    [ok |-> pk # BadKey, val |-> <<"sealed", pk, secret_value>>]

UReq(op, name, kid, val, st) ==
    [op |-> op, name |-> name, key_id |-> kid, encrypted_value |-> val,
     status |-> st]

uploadLocals == <<secrets_to_upsert, key_id, public_key, uidx, all_verified>>
uploadOthers == <<prog, env, backoffVars, remoteVars, mainVars, histVars, validatorVars>>

(* line 170 *)
EXPECTED_NAMES ==
    "Expected: NOTION_TOKEN, LINKCHECK_DB_ID, RADAR_DB_ID, PROJECT_TRACKER_DB_ID"

(* sys.exit(1) with a message, from main or from one of its except clauses *)
UploadFail(msg) ==
    /\ exitCode' = 1
    /\ out' = Append(out, msg)
    /\ upc' = "exited"

(* lines 149-152: GITHUB_TOKEN is required *)
UploadNoToken ==
    /\ upc = "start"
    /\ Not(getenv("GITHUB_TOKEN"))
    /\ UploadFail("Error: GITHUB_TOKEN environment variable is required")
    /\ UNCHANGED <<uploadOthers, uploadLocals, ureqs>>

(* lines 158-171: no secret is set *)
UploadNoSecrets ==
    /\ upc = "start"
    /\ ~Not(getenv("GITHUB_TOKEN"))
    /\ NoSecretsProvided(SecretsToUpsert)
    /\ exitCode' = 1
    /\ out' = out \o <<"Warning: No secrets provided via environment variables",
                       EXPECTED_NAMES>>
    /\ upc' = "exited"
    /\ secrets_to_upsert' = SecretsToUpsert
    /\ UNCHANGED <<uploadOthers, key_id, public_key, uidx, all_verified, ureqs>>

(* lines 158-177: the secrets are collected and the try block is entered *)
UploadBegin ==
    /\ upc = "start"
    /\ ~Not(getenv("GITHUB_TOKEN"))
    /\ ~NoSecretsProvided(SecretsToUpsert)
    /\ secrets_to_upsert' = SecretsToUpsert
    /\ out' = Append(out, "Upserting secret(s)")
    /\ upc' = "key"
    /\ UNCHANGED <<uploadOthers, exitCode, key_id, public_key, uidx, all_verified, ureqs>>

(* the outcome of one HTTP request: a response with a status, or requests   *)
(* raises (status 0)                                                        *)
UploadOutcomes ==
    {[kind |-> "resp", status |-> st, exc |-> ""] : st \in UploadStatuses}
      \cup {[kind |-> "exc", status |-> 0, exc |-> e] : e \in UploadExceptions}

(* the call raises: requests did, or response.raise_for_status() does *)
RequestFails(o) == o.kind = "exc" \/ RaisesForStatus(o.status)

(* lines 176-179 with get_repo_public_key (45-49) *)
UploadGetKey ==
    /\ upc = "key"
    /\ \E o \in UploadOutcomes :
         /\ ureqs' = Append(ureqs, UReq("get_key", "", "", <<>>, o.status))
         /\ IF RequestFails(o)
            THEN /\ UploadFail("HTTP Error")
                 /\ UNCHANGED uploadLocals
            ELSE IF o.status # 200
            THEN (* no JSON content: response.json() raises *)
                 /\ UploadFail("Error")
                 /\ UNCHANGED uploadLocals
            ELSE \E b \in KeyBodies :
                   IF b = Malformed
                   THEN (* data["key_id"] raises KeyError *)
                        /\ UploadFail("Error")
                        /\ UNCHANGED uploadLocals
                   ELSE /\ key_id' = b.key_id
                        /\ public_key' = b.key
                        /\ out' = Append(out, "Public key retrieved")
                        /\ upc' = "upsert"
                        /\ uidx' = 1
                        /\ UNCHANGED <<exitCode, secrets_to_upsert, all_verified>>
    /\ UNCHANGED uploadOthers

(* lines 183-185, one iteration: encrypt_secret raises *)
UploadEncryptFails ==
    /\ upc = "upsert"
    /\ ~encrypt_secret(public_key, getenv(secrets_to_upsert[uidx])).ok
    /\ UploadFail("Error")
    /\ UNCHANGED <<uploadOthers, uploadLocals, ureqs>>

(* lines 183-189, one iteration: encrypt_secret and upsert_secret (80-94) *)
UploadUpsert ==
    /\ upc = "upsert"
    /\ LET secret_name == secrets_to_upsert[uidx]
           encrypted == encrypt_secret(public_key, getenv(secret_name))
       IN /\ encrypted.ok
          /\ \E o \in UploadOutcomes :
               /\ ureqs' = Append(ureqs, UReq("put_secret", secret_name, key_id,
                                              encrypted.val, o.status))
               /\ IF RequestFails(o)
                  THEN /\ UploadFail("HTTP Error")
                       /\ UNCHANGED uploadLocals
                  ELSE /\ out' = Append(out, "upserted successfully")
                       /\ IF uidx < Len(secrets_to_upsert)
                          THEN /\ uidx' = uidx + 1
                               /\ UNCHANGED <<upc, all_verified>>
                          ELSE /\ upc' = "verify"
                               /\ uidx' = 1
                               /\ all_verified' = TRUE
                       /\ UNCHANGED <<exitCode, secrets_to_upsert, key_id, public_key>>
    /\ UNCHANGED uploadOthers

(* lines 190-196, one iteration, with verify_secret_exists (109-117) *)
UploadVerify ==
    /\ upc = "verify"
    /\ LET secret_name == secrets_to_upsert[uidx]
       IN \E o \in UploadOutcomes :
            /\ ureqs' = Append(ureqs, UReq("get_secret", secret_name, "", <<>>, o.status))
            /\ IF o.kind = "exc"
               THEN /\ UploadFail("HTTP Error")
                    /\ UNCHANGED uploadLocals
               ELSE /\ out' = Append(out, IF Exists(o.status) THEN "verified"
                                          ELSE "not found")
                    /\ all_verified' = (all_verified /\ Exists(o.status))
                    /\ IF uidx < Len(secrets_to_upsert)
                       THEN /\ uidx' = uidx + 1
                            /\ UNCHANGED upc
                       ELSE /\ upc' = "verified"
                            /\ UNCHANGED uidx
                    /\ UNCHANGED <<exitCode, secrets_to_upsert, key_id, public_key>>
    /\ UNCHANGED uploadOthers

(* lines 198-200: sys.exit(1); SystemExit passes both except clauses *)
UploadNotVerified ==
    /\ upc = "verified"
    /\ ~all_verified
    /\ UploadFail("Some secrets could not be verified")
    /\ UNCHANGED <<uploadOthers, uploadLocals, ureqs>>

(* lines 203-210 with dispatch_workflow (130-143) *)
UploadDispatch ==
    /\ upc = "verified"
    /\ all_verified
    /\ DispatchEnabled(getenv("NO_DISPATCH"))
    /\ \E o \in UploadOutcomes :
         /\ ureqs' = Append(ureqs, UReq("dispatch", "", "", <<>>, o.status))
         /\ IF RequestFails(o)
            THEN UploadFail("HTTP Error")
            ELSE /\ exitCode' = 0
                 /\ out' = out \o <<"dispatched", "All operations completed successfully!">>
                 /\ upc' = "exited"
    /\ UNCHANGED <<uploadOthers, uploadLocals>>

(* lines 207-210: NO_DISPATCH is set *)
UploadSkipDispatch ==
    /\ upc = "verified"
    /\ all_verified
    /\ ~DispatchEnabled(getenv("NO_DISPATCH"))
    /\ exitCode' = 0
    /\ out' = out \o <<"Skipping workflow dispatch",
                       "All operations completed successfully!">>
    /\ upc' = "exited"
    /\ UNCHANGED <<uploadOthers, uploadLocals, ureqs>>

Upload_Next ==
    \/ UploadNoToken
    \/ UploadNoSecrets
    \/ UploadBegin
    \/ UploadGetKey
    \/ UploadEncryptFails
    \/ UploadUpsert
    \/ UploadVerify
    \/ UploadNotVerified
    \/ UploadDispatch
    \/ UploadSkipDispatch

(* One run of the tool under any environment. *)
InitUpload ==
    /\ prog = "upsert_secrets_and_dispatch"
    /\ env \in [UploadEnvVars -> EnvValues]
    /\ exitCode = -1
    /\ out = <<>>
    /\ upc = "start"
    /\ secrets_to_upsert = <<>>
    /\ key_id = ""
    /\ public_key = ""
    /\ uidx = 0
    /\ all_verified = TRUE
    /\ ureqs = <<>>
    /\ BackoffIdle
    /\ dbs = <<>>
    /\ pages = <<>>
    /\ nlost = 0
    /\ MainIdle
    /\ ValidatorIdle

SpecUpload == InitUpload /\ [][Upload_Next]_vars

----------------------------------------------------------------------------
(* Claims about the secret-upload tool, checked under SpecUpload.          *)

NoneSet == \A i \in 1..Len(SECRET_NAMES) : env[SECRET_NAMES[i]] = "None"
Printed(msg) == \E i \in 1..Len(out) : out[i] = msg

(* C11 as stated: when GITHUB_TOKEN is absent, and when none of the four   *)
(* secret variables is set, the tool issues no request and exits nonzero,   *)
(* and in the latter case it has printed the expected variable names.       *)
C11_MissingConfigPrintsNames ==
    (Missing("GITHUB_TOKEN") \/ NoneSet)
      => /\ ureqs = <<>>
         /\ upc \in {"start", "exited"}
         /\ upc = "exited" => exitCode > 0
         /\ (upc = "exited" /\ NoneSet) => Printed(EXPECTED_NAMES)

(* C11 as amended: the same, the expected names being printed when          *)
(* GITHUB_TOKEN is present and none of the four variables is set (the       *)
(* token is checked first); the run ends in its one step.                   *)
C11_MissingConfigExitsEarly ==
    (Missing("GITHUB_TOKEN") \/ NoneSet)
      => /\ ureqs = <<>>
         /\ upc \in {"start", "exited"}
         /\ upc = "start" => ENABLED (UploadNoToken \/ UploadNoSecrets)
         /\ upc = "exited" => exitCode > 0
         /\ (upc = "exited" /\ NoneSet /\ ~Missing("GITHUB_TOKEN"))
               => Printed(EXPECTED_NAMES)
         /\ (upc = "exited" /\ Missing("GITHUB_TOKEN"))
               => ~Printed(EXPECTED_NAMES)

C11_Witness ==
    /\ env["GITHUB_TOKEN"] = "value"
    /\ NoneSet
    /\ upc = "exited"
    /\ exitCode = 1
    /\ Printed(EXPECTED_NAMES)
    /\ ureqs = <<>>

(* the requests of the run that verify secret `name` *)
Verifications(name) ==
    {i \in 1..Len(ureqs) : ureqs[i].op = "get_secret" /\ ureqs[i].name = name}

(* a verification failed: the secret was not found, or the request raised *)
VerificationFailed ==
    \E i \in 1..Len(ureqs) : ureqs[i].op = "get_secret" /\ ureqs[i].status # 200

(* C12: a run in which the verification of a secret failed ends with a     *)
(* failure status, and by then the verification of every present secret    *)
(* has been attempted.                                                     *)
C12_AllVerificationsAttempted ==
    (upc = "exited" /\ VerificationFailed)
      => /\ exitCode = 1
         /\ \A k \in 1..Len(secrets_to_upsert) :
               Verifications(secrets_to_upsert[k]) # {}

(* C12, the case the code handles: when every failed verification was an   *)
(* answer other than 200 (no request raised), all secrets were attempted.   *)
C12_NotFoundDoesNotStop ==
    (upc = "exited" /\ VerificationFailed
       /\ \A i \in 1..Len(ureqs) : ureqs[i].status # 0)
      => /\ exitCode = 1
         /\ \A k \in 1..Len(secrets_to_upsert) :
               Cardinality(Verifications(secrets_to_upsert[k])) = 1

Dispatches == {i \in 1..Len(ureqs) : ureqs[i].op = "dispatch"}

(* request i uploaded secret `name` successfully / verified it successfully *)
Uploaded(i, name) ==
    /\ ureqs[i].op = "put_secret"
    /\ ureqs[i].name = name
    /\ ureqs[i].status \in 200..399
Verified(i, name) ==
    /\ ureqs[i].op = "get_secret"
    /\ ureqs[i].name = name
    /\ ureqs[i].status = 200

(* an upload or a verification failed: error status, or the request raised *)
UploadOrVerificationFailed ==
    \E i \in 1..Len(ureqs) :
       \/ ureqs[i].op = "put_secret" /\ ureqs[i].status \notin 200..399
       \/ ureqs[i].op = "get_secret" /\ ureqs[i].status # 200

(* C13: a run issues at most one dispatch request; it is the last request  *)
(* of the run; when it is issued every secret variable that is set has     *)
(* been uploaded and then verified successfully; and no dispatch is issued  *)
(* when an upload or a verification failed, nor when NO_DISPATCH is set to  *)
(* a non-empty value.                                                      *)
C13_DispatchOnceAtEnd ==
    /\ Cardinality(Dispatches) <= 1
    /\ \A d \in Dispatches :
         /\ d = Len(ureqs)
         /\ \A k \in 1..Len(SECRET_NAMES) :
              env[SECRET_NAMES[k]] # "None"
                => \E i, j \in 1..(d - 1) :
                      /\ i < j
                      /\ Uploaded(i, SECRET_NAMES[k])
                      /\ Verified(j, SECRET_NAMES[k])
    /\ UploadOrVerificationFailed => Dispatches = {}
    /\ env["NO_DISPATCH"] \notin {"None", ""} => Dispatches = {}
    /\ (upc = "exited" /\ Dispatches = {} /\ exitCode = 0)
          => env["NO_DISPATCH"] \notin {"None", ""}

C13_Witness ==
    /\ upc = "exited"
    /\ exitCode = 0
    /\ Len(secrets_to_upsert) = 2
    /\ Len(ureqs) = 6
    /\ ureqs[6].op = "dispatch"
    /\ ureqs[6].status = 204

Uploads(name) ==
    {i \in 1..Len(ureqs) : ureqs[i].op = "put_secret" /\ ureqs[i].name = name}

KeyFetches == {i \in 1..Len(ureqs) : ureqs[i].op = "get_key"}

(* the run is over and every request it issued succeeded *)
AllSucceeded ==
    /\ upc = "exited"
    /\ exitCode = 0
    /\ \A i \in 1..Len(ureqs) :
         IF ureqs[i].op \in {"get_key", "get_secret"} THEN ureqs[i].status = 200
         ELSE ureqs[i].status \in 200..399

(* C14: in a run where all requests succeed, every secret variable that is *)
(* set (the empty string included) is uploaded once, encrypted with the     *)
(* fetched public key and sent with the fetched key id, and verified once   *)
(* after its upload; an unset variable is neither uploaded nor verified;    *)
(* and in every run a verification follows an upload of the same secret     *)
(* and an upload follows a successful fetch of the public key.              *)
C14_FetchEncryptUploadVerify ==
    /\ AllSucceeded =>
         /\ KeyFetches = {1}
         /\ \A k \in 1..Len(SECRET_NAMES) :
              LET name == SECRET_NAMES[k]
              IN IF env[name] # "None"
                 THEN /\ \E i \in Uploads(name) : Uploads(name) = {i}
                      /\ \E j \in Verifications(name) : Verifications(name) = {j}
                      /\ \A i \in Uploads(name) :
                           /\ ureqs[i].key_id = key_id
                           /\ ureqs[i].encrypted_value = <<"sealed", public_key, env[name]>>
                 ELSE Uploads(name) = {} /\ Verifications(name) = {}
    /\ \A j \in 1..Len(ureqs) :
         /\ ureqs[j].op = "get_secret"
              => \E i \in 1..(j - 1) : Uploaded(i, ureqs[j].name)
         /\ ureqs[j].op = "put_secret"
              => (j > 1 /\ ureqs[1].op = "get_key" /\ ureqs[1].status = 200
                    /\ ureqs[j].key_id # "")

(* a successful run whose first secret is set to the empty string *)
C14_Witness ==
    /\ AllSucceeded
    /\ env["NOTION_TOKEN"] = ""
    /\ env["LINKCHECK_DB_ID"] = "None"
    /\ env["RADAR_DB_ID"] = "value"
    /\ Uploads("NOTION_TOKEN") = {2}
    /\ Verifications("RADAR_DB_ID") # {}
    /\ key_id = "kid-2"

----------------------------------------------------------------------------
(* Further claims about the bootstrap tool, checked under SpecMain.        *)

FailureMessages == {FailureMessage(pc) : pc \in Calling}

(* C15: the exit code tells the outcome.  With NOTION_TOKEN or             *)
(* PARENT_PAGE_ID missing the run makes no call, sends no request and      *)
(* exits 2, and 2 is the exit code of no other run; a call that raised or  *)
(* was answered with an error status makes the run exit 1 at its next      *)
(* step, and a run that exited 1 printed the failure message of a step;    *)
(* a run that exited 0 resolved the three databases and got both smoke-test *)
(* records inserted, the second as its last call.                          *)
C15_ExitCodeTellsOutcome ==
    /\ [](/\ exitCode \in {-1, 0, 1, 2}
          /\ bpc = "exited" <=> exitCode # -1
          /\ (Missing("NOTION_TOKEN") \/ Missing("PARENT_PAGE_ID"))
               => /\ calls = <<>> /\ wpc = "idle" /\ nreq = 0
                  /\ Len(dbs) = dbsAtStart /\ Len(pages) = pagesAtStart
                  /\ bpc \in {"start", "exited"}
                  /\ bpc = "exited" => exitCode = 2
          /\ exitCode = 2
               => (Missing("NOTION_TOKEN") \/ Missing("PARENT_PAGE_ID"))
          /\ exitCode = 1
               => (calls # <<>> /\ \E m \in FailureMessages : out = <<m>>)
          /\ exitCode = 0
               => /\ chron_id # 0 /\ link_id # 0 /\ runlog_id # 0 /\ page_id # 0
                  /\ out = <<"v1-lite setup complete!">>
                  /\ page_id \in NewRecords(chron_id)
                  /\ \E k \in NewRecords(link_id) : pages[k].rel = page_id
                  /\ Len(calls) >= 6
                  /\ calls[Len(calls) - 1] = CreatePageReq(chron_id, 0)
                  /\ calls[Len(calls)] = CreatePageReq(link_id, page_id))
    /\ [][(bpc \in Calling /\ wpc \in {"returned", "raised"}
             /\ (wpc = "raised" \/ result.status >= 400))
            => (exitCode' = 1 /\ bpc' = "exited"
                  /\ out' = <<FailureMessage(bpc)>>)]_vars

(* a rerun of a completed run whose smoke test fails *)
C15_Witness ==
    /\ prev.exit = 0
    /\ bpc = "exited"
    /\ exitCode = 1
    /\ out = <<"Smoke test failed">>

(* the step a call belongs to: 1 ensure Chronicle, 2 ensure LinkChecks,    *)
(* 3 ensure relation, 4 ensure RunLog, 5 smoke test                        *)
StepOf(r) ==
    CASE r.title = "Chronicle" -> 1
      [] r.title = "LinkChecks" -> 2
      [] r.title = "RunLog" -> 4
      [] r.op = "create_page" -> 5
      [] OTHER -> 3

(* C16: the calls of a run follow the order of the steps, starting with    *)
(* the first and skipping none (each call is added after those made, and    *)
(* it belongs to the step of the call before it or to the next step), and   *)
(* every request sent is that of the last call; a call that fails (it      *)
(* raised, after a non-transient exception or the sixth transient           *)
(* failure, or it returned an error status) ends the                        *)
(* process at the next step with no further call and no change on the       *)
(* service, and an ended process does nothing more; so a record is inserted *)
(* or requested only after the three databases were resolved and the        *)
(* relation step was passed in that same run.                               *)
C16_StepsInOrderAbortOnFailure ==
    /\ [][calls' # calls
            => \/ calls' = <<>> /\ bpc' = "start"
               \/ /\ calls' = Append(calls, req')
                  /\ IF calls = <<>> THEN StepOf(req') = 1
                     ELSE StepOf(req') - StepOf(calls[Len(calls)]) \in {0, 1}]_vars
    /\ [](/\ wpc # "idle" => (calls # <<>> /\ req = calls[Len(calls)])
          /\ ((calls # <<>> /\ calls[Len(calls)].op = "create_page")
                \/ Len(pages) > pagesAtStart)
               => /\ chron_id # 0 /\ link_id # 0 /\ runlog_id # 0
                  /\ \E i \in 1..Len(calls) : calls[i] = GetDbReq(link_id)
                  /\ link_schema.type # "absent"
                       \/ \E i \in 1..Len(calls) :
                             calls[i] = PatchReq(link_id, Relation(chron_id)))
    /\ [][(bpc \in Calling /\ wpc \in {"returned", "raised"}
             /\ (wpc = "raised" \/ result.status >= 400))
            => (/\ bpc' = "exited" /\ exitCode' = 1
                /\ calls' = calls /\ wpc' = "idle"
                /\ dbs' = dbs /\ pages' = pages)]_vars
    /\ [][bpc = "exited"
            => (/\ bpc' = "start" /\ calls' = <<>> /\ wpc' = "idle"
                /\ dbs' = dbs /\ pages' = pages)]_vars

(* the relation step failed: the run ended without a call for RunLog *)
C16_Witness ==
    /\ bpc = "exited"
    /\ exitCode = 1
    /\ calls # <<>>
    /\ calls[Len(calls)].op = "patch_db"
    /\ Len(pages) = pagesAtStart
    /\ runlog_id = 0

(* a search has returned its results to search_database_by_title *)
SearchReturned ==
    /\ bpc \in {"chron_search", "link_search", "runlog_search"}
    /\ wpc = "returned"
    /\ result.status < 400

(* the results of the returned search whose title is exactly the query *)
ExactResults ==
    {k \in 1..Len(result.body.results) :
        Join(result.body.results[k].title) = <<req.title>>}

(* C17: search_database_by_title returns a result only if its title is     *)
(* equal to the requested title, and None only if no result has that        *)
(* title: after a search the tool takes the id of a result with exactly     *)
(* the requested title when there is one, and otherwise (also when a result *)
(* such as 'Chronicle Archive' contains the title) calls create_database    *)
(* for it; so every id the tool holds is that of a database with exactly    *)
(* the title it stands for.                                                 *)
C17_ExactTitleMatchOnly ==
    /\ [](/\ chron_id # 0 => Join(dbs[chron_id].title) = <<"Chronicle">>
          /\ link_id # 0 => Join(dbs[link_id].title) = <<"LinkChecks">>
          /\ runlog_id # 0 => Join(dbs[runlog_id].title) = <<"RunLog">>)
    /\ [][SearchReturned
            => IF ExactResults = {}
               THEN /\ req' = CreateDbReq(req.title)
                    /\ <<chron_id, link_id, runlog_id>>' = <<chron_id, link_id, runlog_id>>
               ELSE /\ req'.op # "create_db"
                    /\ \E k \in ExactResults :
                         LET id == result.body.results[k].id
                         IN /\ bpc = "chron_search" => chron_id' = id
                            /\ bpc = "link_search" => link_id' = id
                            /\ bpc = "runlog_search" => runlog_id' = id]_vars

(* a workspace that held 'Chronicle Archive' and no 'Chronicle': the tool   *)
(* created Chronicle and completed                                          *)
C17_Witness ==
    /\ run = 1
    /\ bpc = "exited"
    /\ exitCode = 0
    /\ dbsAtStart >= 1
    /\ \E i \in 1..dbsAtStart : dbs[i].title = <<<<"Chronicle">>, <<"Archive">>>>
    /\ \A i \in 1..dbsAtStart : dbs[i].title # <<<<"Chronicle">>>>
    /\ chron_id > dbsAtStart

----------------------------------------------------------------------------
(* Further claims about notion_request_with_backoff (SpecBackoff).         *)

(* a header text that reads as a number: digits, after an optional sign *)
NumericText(t) ==
    LET digits == IF Len(t) > 0 /\ t[1] = "-" THEN Tail(t) ELSE t
    IN /\ Len(digits) > 0
       /\ \A i \in 1..Len(digits) : digits[i] \in {"0", "1", "2", "3", "4", "5", "6", "7", "8", "9"}

(* attempt n has failed transiently without a usable Retry-After, and       *)
(* attempts remain                                                          *)
NoUsableRetryAfter ==
    /\ wpc = "got"
    /\ nreq < 6
    /\ \/ /\ resp.kind = "resp"
          /\ resp.status \in {429, 500, 502, 503, 504}
          /\ (~resp.hdr.present \/ ~NumericText(resp.hdr.text))
       \/ /\ resp.kind = "exc"
          /\ resp.exc \in {"ConnectionError", "Timeout"}

(* min(1 * 2^(n-1), 10) for n = 1..5 *)
ExpectedSleep(n) ==
    CASE n = 1 -> 1 [] n = 2 -> 2 [] n = 3 -> 4 [] n = 4 -> 8 [] n = 5 -> 10

(* C18: without a usable Retry-After (header absent, empty or not numeric, *)
(* or a connection/timeout error) the call sleeps 1, 2, 4, 8, 10 seconds    *)
(* after its attempt n = 1..5 and then makes attempt n + 1, n counting      *)
(* every request of the call so far whatever its outcome was.               *)
C18_ExponentialBackoffCapped ==
    /\ [](wpc \in {"loop", "got"} => attempt = nreq)
    /\ [][NoUsableRetryAfter
            => (/\ wpc' = "loop"
                /\ lastSleep' = ExpectedSleep(nreq)
                /\ nsleep' = nsleep + 1
                /\ nreq' = nreq)]_vars

(* the fifth sleep, of 10 seconds, after failures of both kinds *)
C18_Witness ==
    /\ wpc = "loop"
    /\ nreq = 5
    /\ nsleep = 5
    /\ lastSleep = 10
    /\ resp.kind = "exc"
    /\ n503 = 2

(* the call is about to hand a duration to time.sleep (lines 79 and 88):    *)
(* a transient response or a caught error is in hand and attempts remain    *)
AboutToSleep ==
    /\ wpc = "got"
    /\ attempt < 6
    /\ \/ resp.kind = "resp" /\ resp.status \in {429, 500, 502, 503, 504}
       \/ resp.kind = "exc" /\ resp.exc \in {"ConnectionError", "Timeout"}

(* the Retry-After header in hand reads as a negative number *)
NegativeRetryAfter ==
    /\ resp.kind = "resp"
    /\ resp.hdr.present
    /\ Len(resp.hdr.text) > 1
    /\ resp.hdr.text[1] = "-"
    /\ NumericText(resp.hdr.text)
    /\ \E i \in 2..Len(resp.hdr.text) : resp.hdr.text[i] # "0"

(* C22: every time the call reaches time.sleep, a sleep of a duration d     *)
(* with 0 <= d <= 10 seconds is performed and the call goes on to its next  *)
(* attempt, for every Retry-After value (above 10, zero, negative) and      *)
(* every attempt number.                                                    *)
C22_EverySleepWithinBounds ==
    [][AboutToSleep
         => (/\ wpc' = "loop"
             /\ nsleep' = nsleep + 1
             /\ lastSleep' >= 0
             /\ lastSleep' <= 10)]_vars

(* C22, the cases the code handles: every sleep that completes lasted 0 to  *)
(* 10 seconds, and time.sleep completes unless the Retry-After in hand is   *)
(* negative, in which case it raises ValueError and the call ends.          *)
C22_SleepWithinBoundsUnlessNegative ==
    /\ [](nsleep > 0 => (lastSleep >= 0 /\ lastSleep <= 10))
    /\ [][AboutToSleep
            => IF NegativeRetryAfter
               THEN /\ wpc' = "raised"
                    /\ result'.exc = "ValueError"
                    /\ nsleep' = nsleep
                    /\ lastSleep' = lastSleep
               ELSE /\ wpc' = "loop"
                    /\ nsleep' = nsleep + 1
                    /\ lastSleep' >= 0
                    /\ lastSleep' <= 10]_vars

----------------------------------------------------------------------------
(* Claims about what a bootstrap run leaves on the service (SpecMain).     *)

(* the databases titled t that were created since this run started *)
CreatedInRun(t) ==
    {i \in (dbsAtStart + 1)..Len(dbs) : Join(dbs[i].title) = <<t>>}

(* C19: a single run causes at most one database of each title to be       *)
(* created on the service, retried create requests included.               *)
C19_OneDatabasePerTitlePerRun ==
    \A t \in {"Chronicle", "LinkChecks", "RunLog"} :
       Cardinality(CreatedInRun(t)) <= 1

(* C19, what the code does guarantee: a run calls create_database at most   *)
(* once per title, and only for a title its search did not find.            *)
C19_OneCreateCallPerTitle ==
    \A t \in {"Chronicle", "LinkChecks", "RunLog"} :
       /\ Cardinality({i \in 1..Len(calls) : calls[i] = CreateDbReq(t)}) <= 1
       /\ \A i \in 1..Len(calls) :
            calls[i] = CreateDbReq(t) => (i > 1 /\ calls[i - 1] = SearchReq(t))

(* the 'ensure LinkChecks and relation' step of this run has succeeded *)
RelationStepSucceeded ==
    \/ bpc \in {"runlog_search", "runlog_create", "page_chron", "page_link"}
    \/ bpc = "exited" /\ exitCode = 0

(* C20: once the 'ensure LinkChecks and relation' step has succeeded, the   *)
(* LinkChecks schema has a property 'Chronicle' that is a relation to the   *)
(* Chronicle database resolved in this run, whatever the workspace held.    *)
C20_RelationTargetsChronicle ==
    RelationStepSucceeded => dbs[link_id].chronicle = Relation(chron_id)

(* C20, the case the code handles: when the schema fetched in this run had  *)
(* no property named 'Chronicle', the step leaves the relation to the run's *)
(* Chronicle; otherwise it leaves the property as it found it.              *)
C20_RelationWhenAdded ==
    RelationStepSucceeded
      => IF link_schema.type = "absent"
         THEN dbs[link_id].chronicle = Relation(chron_id)
         ELSE dbs[link_id].chronicle = link_schema

----------------------------------------------------------------------------
(* Reruns after an aborted run.  The service is taken to have recovered by  *)
(* the last run the model follows: it then answers every request, with 200  *)
(* when it can apply it and by rejecting it (400) when it cannot.  Until    *)
(* then it answers as in SpecMain.                                          *)

ServiceRecovered == run = MaxRuns

AnswersSuccessfully ==
    ServiceRecovered
      => resp'.status = (IF CanApply(req, dbs, pages) THEN 200 ELSE 400)

(* requests.request(...) answers with a response *)
RerunRequestResp == BackoffRequestResp /\ AnswersSuccessfully

(* requests.request(...) raises: not once the service has recovered *)
RerunRequestExc == BackoffRequestExc /\ ~ServiceRecovered

Rerun_Next ==
    \/ Main_Next
    \/ RerunRequestResp
    \/ RerunRequestExc
    \/ BackoffTransient
    \/ BackoffReturn
    \/ BackoffCaught
    \/ BackoffUncaught

(* Fairness: the process is sequential and always executes its next         *)
(* statement, every request ends within its timeout with a response or an   *)
(* exception, and the operator invokes the tool again after it has exited.  *)
SpecRerun == InitMain /\ [][Rerun_Next]_vars /\ WF_vars(Rerun_Next)

(* the databases whose title is exactly t *)
TitledIds(t) == {i \in 1..Len(dbs) : Join(dbs[i].title) = <<t>>}

(* exactly one Chronicle, one LinkChecks carrying the relation to it, and   *)
(* one RunLog                                                               *)
Converged ==
    /\ \A t \in {"Chronicle", "LinkChecks", "RunLog"} :
          Cardinality(TitledIds(t)) = 1
    /\ \A l \in TitledIds("LinkChecks"), c \in TitledIds("Chronicle") :
          dbs[l].chronicle = Relation(c)

(* no database of a title that existed when this run started was created   *)
(* in this run                                                              *)
ReusedEarlier ==
    \A t \in {"Chronicle", "LinkChecks", "RunLog"} :
       (\E i \in 1..dbsAtStart : Join(dbs[i].title) = <<t>>)
          => CreatedInRun(t) = {}

(* the tool is started again after a run that aborted (exit code 1), the    *)
(* service having recovered                                                 *)
RerunAfterAbort ==
    /\ ServiceRecovered
    /\ bpc = "start"
    /\ prev.exit = 1

(* C21: a rerun that follows an aborted run, with the service answering     *)
(* every request successfully, eventually reaches a workspace with exactly  *)
(* one Chronicle, one LinkChecks carrying the Chronicle relation and one    *)
(* RunLog, having created no database of a title the workspace held.        *)
C21_RerunConverges ==
    RerunAfterAbort ~> (Converged /\ ReusedEarlier)

(* what the aborted run left holds no two databases of one title *)
NoDuplicates ==
    \A t \in {"Chronicle", "LinkChecks", "RunLog"} :
       Cardinality(TitledIds(t)) <= 1

(* the LinkChecks database, if there is one, has no property 'Chronicle'    *)
(* or one that is the relation to the Chronicle database                    *)
RelationSound ==
    \A l \in TitledIds("LinkChecks") :
       \/ dbs[l].chronicle = Absent
       \/ \E c \in TitledIds("Chronicle") : dbs[l].chronicle = Relation(c)

(* C21, why no later rerun repairs it: no step removes a database or        *)
(* changes a title, so a workspace that holds two databases of one title    *)
(* holds them ever after, however often the tool is run again.              *)
C21_DuplicatesStay ==
    [][~NoDuplicates => ~NoDuplicates']_vars

(* C21, the case the code handles: a rerun that starts from a workspace     *)
(* without duplicate titles and without a foreign 'Chronicle' property on   *)
(* LinkChecks completes with exit code 0 in the converged workspace.        *)
C21_ConvergesWithoutDuplicates ==
    (RerunAfterAbort /\ NoDuplicates /\ RelationSound)
       ~> (bpc = "exited" /\ exitCode = 0 /\ Converged /\ ReusedEarlier)

====
